---- MODULE Spec2Model ----
(***************************************************************************)
(* Model of store/tikv/scan.go: the Scanner that pages through a          *)
(* region-partitioned, versioned key-value store at one read version.     *)
(*                                                                         *)
(* Keys and values are byte strings, modelled as sequences of naturals;   *)
(* nil and the empty slice are both <<>>.  Go's 0-based s.idx is kept     *)
(* 0-based, so s.cache[s.idx] is cache[idx + 1].                           *)
(*                                                                         *)
(* Scanner.Next and Scanner.getData block on collaborators (region cache, *)
(* request sender, backoffer, snapshot.get), whose answers are inputs.    *)
(* Each collaborator call is one step of the handler; pc is the position  *)
(* of the single caller inside newScanner/Next.                           *)
(***************************************************************************)
EXTENDS Integers, Sequences, FiniteSets, TLC

\* ---- bounds of the model ------------------------------------------------
NumKeys == 2          \* single-byte keys <<1>> .. <<NumKeys>> (plus <<NumKeys,0>>)
MaxBatchSize == 2     \* largest batchSize argument passed to newScanner
MaxRegionMiss == 2    \* region misses one Backoffer absorbs before failing

\* ---- program constant ---------------------------------------------------
scanBatchSize == 256

VARIABLES
    \* the store, fixed for the snapshot version, and newScanner's arguments
    data,          \* key -> "absent" | "val" | "tomb" | "lockVal" | "lockTomb"
    splits,        \* set of region boundary keys
    startKey,      \* newScanner argument
    batchArg,      \* newScanner argument (from 1 up: what is below 1 is
                   \* normalised as 1 is)
    \* Scanner fields
    batchSize, valid, cache, idx, nextStartKey, eof,
    \* position inside newScanner / Next / getData, and their locals
    pc,            \* "new" | "idle" | "loop" | "locate" | "send" |
                   \* "visibility" | "extract" | "resolve"
    inCtor,        \* TRUE while the running Next is the one newScanner issued
    bo,            \* backoff consumed from the Backoffer of the running Next
                   \* (kept after a Next that failed, 0 after one that
                   \* returned nil, like the other locals and counters)
    loc,           \* getData's loc
    resp,          \* getData's cmdScanResp.Pairs
    \* results handed to the caller
    err,           \* what the last Next returned ("none" before the first)
    ctorErr,       \* what newScanner returned ("pending" until it returns)
    \* history
    out,           \* <<Key(), Value()>> after every Next that returned nil
                   \* with Valid() true
    how,           \* why valid became false: "open" | "eof" | "error" | "close"
    ctorNexts,     \* number of Next calls newScanner has issued
    nLocate, nScan, nGet,   \* collaborator calls issued by the running Next
    reqLog,        \* scan requests sent (a retry of the same request once)
    fetchKey,      \* nextStartKey when the running getData was entered
    fetchMiss,     \* region errors the running getData has received
                   \* (kept when it fails on the budget, 0 after any
                   \* other return)
    getKeys,       \* keys passed to snapshot.get so far
    sendOutcome,   \* how the last SendReq of this Next ended ("none"
                   \* before it)
    spentBefore    \* TRUE once a Next that returned nil had absorbed
                   \* MaxRegionMiss region misses

cfgVars == <<data, splits, startKey, batchArg>>
scanVars == <<batchSize, valid, cache, idx, nextStartKey, eof>>
vars == <<data, splits, startKey, batchArg,
          batchSize, valid, cache, idx, nextStartKey, eof,
          pc, inCtor, bo, loc, resp, err, ctorErr,
          out, how, ctorNexts, nLocate, nScan, nGet, reqLog, fetchKey, fetchMiss,
          getKeys, sendOutcome, spentBefore>>

\* ---- keys ---------------------------------------------------------------
\* bytes.Compare(a, b) < 0
KeyLess(a, b) ==
    \E i \in 1..Len(b) :
        /\ \A j \in 1..(i - 1) : j <= Len(a) /\ a[j] = b[j]
        /\ (i > Len(a) \/ a[i] < b[i])

KeyLeq(a, b) == a = b \/ KeyLess(a, b)

\* kv.Key.Next(): the immediate successor, the key with a zero byte appended
KeyNext(k) == Append(k, 0)

MinKey(S) == CHOOSE k \in S : \A o \in S : KeyLeq(k, o)
MaxKey(S) == CHOOSE k \in S : \A o \in S : KeyLeq(o, k)

RECURSIVE SortKeys(_)
SortKeys(S) ==
    IF S = {} THEN <<>>
    ELSE LET m == MinKey(S) IN <<m>> \o SortKeys(S \ {m})

Take(s, n) == IF Len(s) <= n THEN s ELSE SubSeq(s, 1, n)

\* ---- the store ----------------------------------------------------------
\* The single-byte keys take every kind; <<NumKeys, 0>>, the immediate
\* successor of the last of them, is absent or holds a committed value.
SuccKey == <<NumKeys, 0>>
DataKeys == {<<i>> : i \in 1..NumKeys} \cup {SuccKey}
SplitKeys == {<<i>> : i \in 2..NumKeys} \cup {SuccKey}
StartKeys == {<<>>} \cup {<<i>> : i \in 2..NumKeys}
Kinds == {"absent", "val", "tomb", "lockVal", "lockTomb"}
Stores == {d \in [DataKeys -> Kinds] : d[SuccKey] \in {"absent", "val"}}

\* the keys of the store in key order
SortedDataKeys == SortKeys(DataKeys)

IsLocked(k) == data[k] \in {"lockVal", "lockTomb"}

\* snapshot.get(bo, key) when it succeeds: the value at the read version,
\* empty for a deleted or missing key; a locked key reads as what its lock
\* resolves to.
PointRead(k) ==
    CASE k \notin DataKeys -> <<>>
      [] data[k] = "val" -> k \o <<1>>
      [] data[k] = "lockVal" -> k \o <<2>>
      [] OTHER -> <<>>

\* regionCache.LocateKey(bo, key) when it succeeds: the region
\* [StartKey, EndKey) that holds key; an empty EndKey is the last region.
LocateKey(key) ==
    LET below == {s \in splits : KeyLeq(s, key)}
        above == {s \in splits : KeyLess(key, s)}
    IN [StartKey |-> IF below = {} THEN <<>> ELSE MaxKey(below),
        EndKey |-> IF above = {} THEN <<>> ELSE MinKey(above)]

\* One pb.KvPair of a scan response.  Error = <<>> is a nil KeyError; a
\* locked key comes back as Error = <<lock key>> with no value, and its Key
\* field is either set or left empty by the store (wireKey).
ScanPair(k, wireKey) ==
    CASE data[k] = "val" -> [Key |-> k, Value |-> k \o <<1>>, Error |-> <<>>]
      [] data[k] = "tomb" -> [Key |-> k, Value |-> <<>>, Error |-> <<>>]
      [] OTHER -> [Key |-> IF wireKey THEN k ELSE <<>>,
                   Value |-> <<>>, Error |-> <<k>>]

\* The store's answer to pb.ScanRequest{StartKey, Limit, Version} sent to
\* region: the first Limit entries of the region at or after StartKey.
ScanRegion(region, start, limit, wireKey) ==
    LET inRange(k) ==
            /\ data[k] # "absent"
            /\ KeyLeq(start, k)
            /\ KeyLeq(region.StartKey, k)
            /\ (region.EndKey = <<>> \/ KeyLess(k, region.EndKey))
        keys == Take(SelectSeq(SortedDataKeys, inRange), limit)
    IN [i \in 1..Len(keys) |-> ScanPair(keys[i], wireKey)]

\* bo.Backoff(BoRegionMiss, err) on a Backoffer that has already absorbed b
\* region misses: nil while the budget lasts, an error once it is spent.
Backoff(b) == IF b < MaxRegionMiss THEN "nil" ELSE "BackoffExceeded"

\* ---- newScanner, lines 39-49 -------------------------------------------
NormBatchSizeOff(n) == IF n < 1 THEN scanBatchSize ELSE n
NormBatchSize(n) == IF n <= 1 THEN scanBatchSize ELSE n

\* getData's loc before LocateKey has answered, line 150
NoLoc == [StartKey |-> <<>>, EndKey |-> <<>>]

Init ==
    /\ data \in Stores
    /\ splits \in SUBSET SplitKeys
    /\ startKey \in StartKeys
    /\ batchArg \in 1..MaxBatchSize
    /\ batchSize = NormBatchSize(batchArg)
    /\ valid = TRUE
    /\ cache = <<>>
    /\ idx = 0
    /\ nextStartKey = startKey
    /\ eof = FALSE
    /\ pc = "new"
    /\ inCtor = FALSE
    /\ bo = 0
    /\ loc = NoLoc
    /\ resp = <<>>
    /\ err = "none"
    /\ ctorErr = "pending"
    /\ out = <<>>
    /\ how = "open"
    /\ ctorNexts = 0
    /\ nLocate = 0 /\ nScan = 0 /\ nGet = 0
    /\ reqLog = <<>>
    /\ fetchKey = <<>>
    /\ fetchMiss = 0
    /\ getKeys = {}
    /\ sendOutcome = "none"
    /\ spentBefore = FALSE

\* ---- Valid, Key, Value, lines 57-76 ------------------------------------
Valid == valid

KeyNoCheck == IF idx < Len(cache) THEN cache[idx + 1].Key ELSE <<>>
Key == IF valid THEN cache[idx + 1].Key ELSE <<>>

Value == IF valid THEN cache[idx + 1].Value ELSE <<>>

\* ---- Close, lines 120-123: the value of s.valid after Close ----------
CloseNoop(v) == v
Close(v) == FALSE

\* ---- newScanner, lines 50-54: what it returns for Next's result ------
IsErrNotFound(e) == e = "NotFound"
newScannerResultAll(e) == e
newScannerResult(e) == IF IsErrNotFound(e) THEN "nil" ELSE e

\* ---- returning from Next ------------------------------------------------
\* Next returns e to its caller; when the caller is newScanner (ctor), lines
\* 51-54 turn e into newScanner's own result.
Return(e, ctor) ==
    /\ pc' = "idle"
    /\ err' = e
    /\ inCtor' = FALSE
    /\ ctorErr' = IF ctor THEN newScannerResult(e) ELSE ctorErr

\* NewBackoffer(ctx, scannerNextMaxBackoff), line 80: what the Backoffer of
\* a Next has absorbed when the previous one had absorbed b
NewBackofferReused(b) == b
NewBackoffer(b) == 0

\* return nil, lines 93 and 116: the locals are gone, and bo stands for the
\* Backoffer the next Next will start with
ReturnNil ==
    /\ Return("nil", inCtor)
    /\ bo' = NewBackoffer(bo)
    /\ spentBefore' = (spentBefore \/ bo = MaxRegionMiss)
    /\ fetchMiss' = 0
    /\ nLocate' = 0 /\ nScan' = 0 /\ nGet' = 0

\* s.Close() followed by return errors.Trace(e), lines 98-100 and 107-108;
\* the locals are gone as after return nil
Fail(e) ==
    /\ Return(e, inCtor)
    /\ valid' = Close(valid)
    /\ how' = IF how = "open" THEN "error" ELSE how
    /\ bo' = NewBackoffer(bo)
    /\ loc' = NoLoc
    /\ resp' = <<>>
    /\ nLocate' = 0 /\ nScan' = 0 /\ nGet' = 0

\* ---- Next, lines 79-84 -------------------------------------------------
NextRejectsNever(v) == FALSE
NextRejects(v) == ~v

NextEnter(ctor) ==
    /\ bo' = NewBackoffer(bo)
    /\ nLocate' = 0 /\ nScan' = 0 /\ nGet' = 0
    /\ fetchMiss' = 0
    /\ sendOutcome' = "none"
    /\ IF NextRejects(valid)
         THEN Return("invalid", ctor)
         ELSE /\ pc' = "loop"
              /\ inCtor' = ctor
              /\ UNCHANGED <<err, ctorErr>>
    /\ UNCHANGED <<cfgVars, scanVars, loc, resp, out, how, reqLog,
                   fetchKey, getKeys, spentBefore>>

\* newScanner, line 50: the priming scanner.Next()
newScanner ==
    /\ pc = "new"
    /\ ctorNexts' = ctorNexts + 1
    /\ NextEnter(TRUE)

\* a caller's Next() on a constructed Scanner
Next_ ==
    /\ pc = "idle"
    /\ UNCHANGED ctorNexts
    /\ NextEnter(FALSE)

\* ---- Next, lines 85-94: one turn of the for loop up to getData --------
NextLoop ==
    /\ pc = "loop"
    /\ idx' = idx + 1
    /\ IF idx + 1 >= Len(cache)
         THEN IF eof
                THEN /\ valid' = Close(valid)
                     /\ how' = IF how = "open" THEN "eof" ELSE how
                     /\ ReturnNil
                     /\ UNCHANGED fetchKey
                ELSE /\ pc' = "locate"
                     /\ fetchKey' = nextStartKey
                     /\ fetchMiss' = 0
                     /\ UNCHANGED <<valid, how, err, inCtor, ctorErr, bo,
                                    nLocate, nScan, nGet, spentBefore>>
         ELSE /\ pc' = "resolve"
              /\ UNCHANGED <<valid, how, err, inCtor, ctorErr, fetchKey,
                             fetchMiss, bo, nLocate, nScan, nGet,
                             spentBefore>>
    /\ UNCHANGED <<cfgVars, batchSize, cache, nextStartKey, eof, loc,
                   resp, out, ctorNexts, reqLog, getKeys, sendOutcome>>

\* ---- getData, lines 149-153 -------------------------------------------
LocateKeyStep ==
    /\ pc = "locate"
    /\ \/ /\ Fail("LocateErr")
          /\ fetchMiss' = 0
       \/ /\ loc' = LocateKey(nextStartKey)
          /\ pc' = "send"
          /\ nLocate' = nLocate + 1
          /\ UNCHANGED <<valid, how, err, inCtor, ctorErr, bo, resp, nScan,
                         nGet, fetchMiss>>
    /\ UNCHANGED <<cfgVars, batchSize, cache, idx, nextStartKey, eof,
                   out, ctorNexts, reqLog, fetchKey, getKeys, sendOutcome,
                   spentBefore>>

\* ---- getData, lines 155-188 -------------------------------------------
\* lines 180-182: getData gives up when Backoff returns an error
BackoffFailsNever(e) == FALSE
BackoffFails(e) == e # "nil"

\* what sender.SendReq and the response can amount to, lines 169-188
SendOutcomes == {"SendErr", "RegionErrInvalid", "RegionMiss", "BodyMissing",
                 "ok"}

\* lines 170-184: of these, only regionErr != nil reaches bo.Backoff and
\* the continue of the retry loop
GoesToBackoffOnSendErr(o) == o \in {"RegionMiss", "SendErr"}
GoesToBackoff(o) == o = "RegionMiss"

ScanRequest == [StartKey |-> nextStartKey, Limit |-> batchSize,
                Region |-> loc.StartKey]

SendReq ==
    /\ pc = "send"
    /\ reqLog' = IF reqLog # <<>> /\ reqLog[Len(reqLog)] = ScanRequest
                   THEN reqLog ELSE Append(reqLog, ScanRequest)
    /\ \E o \in SendOutcomes :
          /\ sendOutcome' = o
          /\ IF GoesToBackoff(o)
               THEN \* lines 177-184
                    /\ fetchMiss' = fetchMiss + 1
                    /\ IF BackoffFails(Backoff(bo))
                         THEN Fail(Backoff(bo))
                         ELSE /\ bo' = IF Backoff(bo) = "nil" THEN bo + 1
                                       ELSE bo
                              /\ pc' = "locate"
                              /\ nScan' = nScan + 1
                              /\ UNCHANGED <<valid, how, err, inCtor,
                                             ctorErr, resp, loc, nLocate,
                                             nGet>>
               ELSE IF o = "ok"
                 THEN \E wireKey \in BOOLEAN :
                        /\ resp' = ScanRegion(loc, nextStartKey, batchSize,
                                              wireKey)
                        /\ pc' = "visibility"
                        /\ nScan' = nScan + 1
                        /\ UNCHANGED <<valid, how, err, inCtor, ctorErr, bo,
                                       fetchMiss, loc, nLocate, nGet>>
                 ELSE /\ Fail(o)
                      /\ fetchMiss' = 0
    /\ UNCHANGED <<cfgVars, batchSize, cache, idx, nextStartKey, eof,
                   out, ctorNexts, fetchKey, getKeys, spentBefore>>

\* ---- getData, lines 190-193 -------------------------------------------
CheckVisibility ==
    /\ pc = "visibility"
    /\ \/ /\ Fail("StaleVersion")
          /\ fetchMiss' = 0
       \/ /\ pc' = "extract"
          /\ UNCHANGED <<valid, how, err, inCtor, ctorErr, resp, bo, loc,
                         nLocate, nScan, nGet, fetchMiss>>
    /\ UNCHANGED <<cfgVars, batchSize, cache, idx, nextStartKey, eof,
                   out, ctorNexts, reqLog, fetchKey, getKeys, sendOutcome,
                   spentBefore>>

\* ---- getData, lines 195-206: pair.Key = lock.Key ----------------------
HasKeyError(pairs) == \E i \in 1..Len(pairs) : pairs[i].Error # <<>>

ExtractLocksKeepKey(pairs) == pairs
ExtractLocksClearMarker(pairs) ==
    [i \in 1..Len(pairs) |->
        IF pairs[i].Error # <<>>
          THEN [Key |-> pairs[i].Error[1], Value |-> pairs[i].Value,
                Error |-> <<>>]
          ELSE pairs[i]]
ExtractLocks(pairs) ==
    [i \in 1..Len(pairs) |->
        IF pairs[i].Error # <<>>
          THEN [pairs[i] EXCEPT !.Key = pairs[i].Error[1]]
          ELSE pairs[i]]

\* ---- getData, lines 208-225: where the next getData starts ------------
ContinuationNoSkip(kvPairs, l, bs, e) ==
    IF Len(kvPairs) < bs
      THEN [nextStartKey |-> l.EndKey,
            eof |-> IF Len(l.EndKey) = 0 THEN TRUE ELSE e]
      ELSE [nextStartKey |-> kvPairs[Len(kvPairs)].Key, eof |-> e]
ContinuationIgnoreEnd(kvPairs, l, bs, e) ==
    IF kvPairs = <<>>
      THEN [nextStartKey |-> l.EndKey,
            eof |-> IF Len(l.EndKey) = 0 THEN TRUE ELSE e]
      ELSE [nextStartKey |-> KeyNext(kvPairs[Len(kvPairs)].Key),
            eof |-> IF Len(kvPairs) < bs /\ Len(l.EndKey) = 0 THEN TRUE ELSE e]
ContinuationEarlyEof(kvPairs, l, bs, e) ==
    IF Len(kvPairs) < bs
      THEN [nextStartKey |-> l.EndKey, eof |-> TRUE]
      ELSE [nextStartKey |-> KeyNext(kvPairs[Len(kvPairs)].Key), eof |-> e]
Continuation(kvPairs, l, bs, e) ==
    IF Len(kvPairs) < bs
      THEN [nextStartKey |-> l.EndKey,
            eof |-> IF Len(l.EndKey) = 0 THEN TRUE ELSE e]
      ELSE [nextStartKey |-> KeyNext(kvPairs[Len(kvPairs)].Key), eof |-> e]

\* lines 199-202: getData returns the extraction error before line 208, so
\* s.cache is still the page c it was
PageOnLockErrInstalled(c, pairs) == pairs
PageOnLockErr(c, pairs) == c

\* getData lines 195-225, then Next lines 102-104
InstallPage ==
    /\ pc = "extract"
    /\ \/ /\ HasKeyError(resp)
          /\ Fail("ExtractLockErr")
          /\ cache' = PageOnLockErr(cache, resp)
          /\ fetchMiss' = 0
          /\ UNCHANGED <<idx, nextStartKey, eof>>
       \/ LET kvPairs == ExtractLocks(resp)
              c == Continuation(kvPairs, loc, batchSize, eof)
          IN /\ cache' = kvPairs
             /\ idx' = 0
             /\ nextStartKey' = c.nextStartKey
             /\ eof' = c.eof
             /\ pc' = IF 0 >= Len(kvPairs) THEN "loop" ELSE "resolve"
             /\ fetchMiss' = 0
             /\ resp' = <<>>
             /\ UNCHANGED <<valid, how, err, inCtor, ctorErr, bo, loc,
                            nLocate, nScan, nGet>>
    /\ UNCHANGED <<cfgVars, batchSize, out, ctorNexts, reqLog, fetchKey,
                   getKeys, sendOutcome, spentBefore>>

\* ---- Next lines 106-116 with resolveCurrentLock, lines 129-142 --------
IsNotExistNever(v) == FALSE
IsNotExist(v) == Len(v) = 0

Resolved(current) ==
    [Key |-> current.Key, Value |-> PointRead(current.Key), Error |-> <<>>]

NeedsGetAlways(current) == TRUE
NeedsGet(current) == current.Error # <<>>

ResolveCurrentLock ==
    /\ pc = "resolve"
    /\ LET current == cache[idx + 1]
           Surface(entry, gets) ==
               IF IsNotExist(entry.Value)
                 THEN /\ pc' = "loop"
                      /\ nGet' = gets
                      /\ UNCHANGED <<valid, how, err, inCtor, ctorErr, out,
                                     bo, fetchMiss, nLocate, nScan,
                                     spentBefore, loc, resp>>
                 ELSE /\ ReturnNil
                      /\ out' = Append(out, <<entry.Key, entry.Value>>)
                      /\ UNCHANGED <<valid, how, loc, resp>>
       IN IF ~NeedsGet(current)
            THEN /\ Surface(current, nGet)
                 /\ UNCHANGED <<cache, getKeys>>
            ELSE /\ getKeys' = getKeys \cup {current.Key}
                 /\ \/ \E e \in {"GetErr", "NotFound"} :
                          /\ Fail(e)
                          /\ UNCHANGED <<cache, out, fetchMiss,
                                         spentBefore>>
                    \/ /\ cache' = [cache EXCEPT ![idx + 1] = Resolved(current)]
                       /\ Surface(Resolved(current), nGet + 1)
    /\ UNCHANGED <<cfgVars, batchSize, idx, nextStartKey, eof,
                   ctorNexts, reqLog, fetchKey, sendOutcome>>

\* ---- a caller's Close(), lines 120-123 --------------------------------
CloseCall ==
    /\ pc = "idle"
    /\ valid' = Close(valid)
    /\ how' = IF how = "open" THEN "close" ELSE how
    /\ UNCHANGED <<cfgVars, batchSize, cache, idx, nextStartKey, eof, pc,
                   inCtor, bo, loc, resp, err, ctorErr, out, ctorNexts,
                   nLocate, nScan, nGet, reqLog, fetchKey, fetchMiss,
                   getKeys, sendOutcome, spentBefore>>

Next ==
    \/ newScanner
    \/ Next_
    \/ NextLoop
    \/ LocateKeyStep
    \/ SendReq
    \/ CheckVisibility
    \/ InstallPage
    \/ ResolveCurrentLock
    \/ CloseCall

Spec == Init /\ [][Next]_vars

TypeOK ==
    /\ pc \in {"new", "idle", "loop", "locate", "send", "visibility",
               "extract", "resolve"}
    /\ valid \in BOOLEAN /\ eof \in BOOLEAN
    /\ idx \in Nat
    /\ bo \in 0..MaxRegionMiss

\* ======================================================================
\* Properties
\* ======================================================================

\* The keys at or after startKey whose value at the read version is not
\* empty, in increasing order, each with that value.
IsVisible(k) == KeyLeq(startKey, k) /\ data[k] \in {"val", "lockVal"}
VisibleKeys == {k \in DataKeys : IsVisible(k)}
VisibleValue(k) == IF data[k] = "val" THEN k \o <<1>> ELSE k \o <<2>>
Expected ==
    LET ks == SelectSeq(SortedDataKeys, IsVisible)
    IN [i \in 1..Len(ks) |-> <<ks[i], VisibleValue(ks[i])>>]

IsPrefix(s, t) == Len(s) <= Len(t) /\ s = SubSeq(t, 1, Len(s))

Idle == pc = "idle"

\* C1: whatever the store, the region split, the start key and the batch
\* size, the keys surfaced so far are an initial part of the visible keys
\* at or after the start key, in increasing order with their values; when
\* the scan ends by exhaustion every one of them has been surfaced, and the
\* Next that found the end returned nil with Valid() false.
C1_ScanSurfacesVisibleKeys ==
    /\ IsPrefix(out, Expected)
    /\ how = "eof" =>
          /\ out = Expected
          /\ ~Valid
          /\ err \in {"nil", "invalid"}

C1_Witness ==
    /\ Idle /\ how = "eof" /\ err = "nil"
    /\ splits # {}
    /\ batchSize = 2
    /\ startKey = <<>>
    /\ Len(out) = 2
    /\ \E k \in DataKeys : data[k] = "tomb"
    /\ \E k \in DataKeys : data[k] = "lockVal"

\* C2: the keys read through Key() after successive successful advances are
\* strictly increasing, so none is returned twice, also on pages that held
\* locked entries; the last logged pair is what Key() and Value() return.
C2_KeysStrictlyIncreasing ==
    /\ \A i \in 1..Len(out) : \A j \in 1..Len(out) :
          i < j => KeyLess(out[i][1], out[j][1])
    /\ (Idle /\ Valid) => (out # <<>> /\ out[Len(out)] = <<Key, Value>>)

C2_Witness ==
    /\ Idle /\ Valid
    /\ Len(out) = 3
    /\ batchSize = 2
    /\ \E i \in 1..Len(out) : IsLocked(out[i][1])

\* C3: whenever Next has returned nil and Valid() is true, Value() is not
\* empty: an entry scanned empty or resolved to empty is never surfaced.
C3_TombstonesElided ==
    /\ (Idle /\ Valid) => Value # <<>>
    /\ \A i \in 1..Len(out) :
          out[i][2] # <<>> /\ data[out[i][1]] \notin {"tomb", "lockTomb"}

C3_Witness ==
    /\ Idle /\ Valid
    /\ \E k \in DataKeys : \E l \in DataKeys :
          /\ data[k] = "tomb" /\ data[l] = "lockTomb"
          /\ KeyLeq(startKey, k) /\ KeyLeq(startKey, l)
          /\ KeyLess(k, Key) /\ KeyLess(l, Key)

\* C4: once Valid() is false it is false in every later state, whatever is
\* called, and Key() and Value() return nil in all those states.
C4_InvalidIsTerminal ==
    /\ [][~Valid => ~Valid']_vars
    /\ [](~Valid => (Key = <<>> /\ Value = <<>>))

C4_Witness ==
    /\ Idle /\ ~Valid /\ err = "invalid"
    /\ idx < Len(cache)
    /\ cache[idx + 1].Value # <<>>

\* C5: every Next that returned an error left the Scanner closed, whichever
\* step failed.
C5_ErrorLeavesClosed ==
    (Idle /\ err \notin {"none", "nil"}) => ~Valid

C5_Witness ==
    /\ Idle /\ ~Valid /\ how = "error"
    /\ err = "ExtractLockErr"
    /\ out # <<>>

\* C6: Next on a closed Scanner returns the "invalid" error at once, calls
\* no collaborator and leaves cache, idx, nextStartKey and eof as they were.
C6_NextOnClosedIsInert ==
    [][(Next_ /\ ~Valid) =>
          /\ err' = "invalid"
          /\ pc' = "idle"
          /\ nLocate' = 0 /\ nScan' = 0 /\ nGet' = 0
          /\ UNCHANGED <<cache, idx, nextStartKey, eof, valid, reqLog,
                         getKeys>>]_vars

C6_Witness ==
    /\ Idle /\ ~Valid /\ err = "invalid"
    /\ how = "close"
    /\ ~eof
    /\ idx + 1 < Len(cache)

\* What a getData that meets no region error installs when entered with
\* nextStartKey = key.
FetchRegionEnd(key) ==
    LET above == {s \in splits : KeyLess(key, s)}
    IN IF above = {} THEN <<>> ELSE MinKey(above)
FetchKeys(key) ==
    LET end == FetchRegionEnd(key)
        inFetch(k) == /\ data[k] # "absent"
                      /\ KeyLeq(key, k)
                      /\ (end = <<>> \/ KeyLess(k, end))
    IN Take(SelectSeq(SortedDataKeys, inFetch), batchSize)
FetchPage(key) ==
    LET ks == FetchKeys(key)
    IN [i \in 1..Len(ks) |->
          [Key |-> ks[i],
           Value |-> IF data[ks[i]] = "val" THEN ks[i] \o <<1>> ELSE <<>>,
           Error |-> IF IsLocked(ks[i]) THEN <<ks[i]>> ELSE <<>>]]
FetchNextStartKey(key) ==
    LET ks == FetchKeys(key)
    IN IF Len(ks) < batchSize THEN FetchRegionEnd(key)
       ELSE ks[Len(ks)] \o <<0>>
FetchEof(key, e) ==
    IF Len(FetchKeys(key)) < batchSize /\ FetchRegionEnd(key) = <<>>
      THEN TRUE ELSE e

InstallsSameAsUndisturbedFetch ==
    (pc = "extract" /\ pc' \in {"loop", "resolve"}) =>
        /\ nextStartKey = fetchKey
        /\ cache' = FetchPage(fetchKey)
        /\ nextStartKey' = FetchNextStartKey(fetchKey)
        /\ eof' = FetchEof(fetchKey, eof)

\* C7 as stated: a getData that has received fewer region errors than the
\* backoff budget does not fail on the budget (it goes on to install what an
\* undisturbed fetch installs); budget exhaustion closes the Scanner.
C7_Original ==
    /\ [][InstallsSameAsUndisturbedFetch]_vars
    /\ []((Idle /\ err = "BackoffExceeded") =>
             (~Valid /\ fetchMiss >= MaxRegionMiss))

\* C7 amended: the budget is that of the enclosing Next, shared by all its
\* getData calls.  A region error met while that budget lasts is absorbed:
\* getData goes back to LocateKey with the Scanner untouched, and the page it
\* finally installs is the one an undisturbed fetch installs.  A region
\* error met when the budget is spent fails Next with the budget error and
\* closes the Scanner.
C7_RegionMissRecovery ==
    [][/\ InstallsSameAsUndisturbedFetch
       /\ (pc = "send" /\ fetchMiss' = fetchMiss + 1) =>
             IF bo < MaxRegionMiss
               THEN /\ pc' = "locate"
                    /\ bo' = bo + 1
                    /\ UNCHANGED <<cache, idx, nextStartKey, eof, valid>>
               ELSE /\ pc' = "idle"
                    /\ err' = "BackoffExceeded"
                    /\ ~Valid']_vars

C7_Witness ==
    /\ pc = "resolve" /\ idx = 0
    /\ bo = MaxRegionMiss
    /\ nScan = MaxRegionMiss + 1
    /\ Len(cache) = 2
    /\ splits # {}

\* C8: with two regions split at m, a start key before m and a batch size
\* larger than the number of entries left in the first region, the first
\* scan request goes to the first region at startKey and the second to the
\* second region at m; the surfaced keys are increasing, and at exhaustion
\* they are all the visible keys of both regions.
TwoRegionCase(m) ==
    /\ splits = {m}
    /\ KeyLess(startKey, m)
    /\ Cardinality({k \in DataKeys : /\ data[k] # "absent"
                                     /\ KeyLeq(startKey, k)
                                     /\ KeyLess(k, m)}) < batchSize

C8_RegionBoundaryContinuation ==
    \A m \in SplitKeys : TwoRegionCase(m) =>
        /\ Len(reqLog) >= 1 =>
              reqLog[1] = [StartKey |-> startKey, Limit |-> batchSize,
                           Region |-> <<>>]
        /\ Len(reqLog) >= 2 =>
              reqLog[2] = [StartKey |-> m, Limit |-> batchSize, Region |-> m]
        /\ \A i \in 1..Len(out) : \A j \in 1..Len(out) :
              i < j => out[i][1] # out[j][1]
        /\ how = "eof" =>
              /\ Len(reqLog) >= 2
              /\ \A k \in VisibleKeys : \E i \in 1..Len(out) : out[i][1] = k

C8_Witness ==
    /\ TwoRegionCase(<<2>>)
    /\ Idle /\ how = "eof"
    /\ data[<<1>>] = "val" /\ data[<<2>>] = "val"
    /\ Len(out) >= 2
    /\ Len(reqLog) >= 2

\* C9: a surfaced entry that arrived locked carries the value a point-read
\* of its key returns and no longer carries the lock; entries not yet
\* consumed keep theirs; only locked keys are ever point-read; a failed
\* point-read fails Next and surfaces nothing.
C9_LockResolution ==
    /\ (Idle /\ Valid) =>
          /\ \A i \in 1..(idx + 1) :
                /\ cache[i].Error = <<>>
                /\ IsLocked(cache[i].Key) =>
                      cache[i].Value = PointRead(cache[i].Key)
          /\ IsLocked(Key) => (Key \in getKeys /\ Value = PointRead(Key))
    /\ \A i \in 1..Len(out) :
          IsLocked(out[i][1]) => out[i][2] = PointRead(out[i][1])
    /\ \A k \in getKeys : k \in DataKeys /\ IsLocked(k)
    /\ (Idle /\ err \in {"GetErr", "NotFound"}) =>
          (~Valid /\ Key = <<>> /\ Value = <<>>)

C9_Witness ==
    /\ Idle /\ Valid
    /\ IsLocked(Key)
    /\ idx = 1
    /\ ~IsLocked(cache[1].Key)

\* C10: newScanner issues exactly one Next.  When that Next fails with
\* not-found, newScanner returns nil and the Scanner is invalid; any other
\* error is returned as it is, with the Scanner closed; when it succeeds the
\* Scanner stands on the first visible key at or after startKey, or is
\* invalid because there is none.
C10_Construction ==
    [][(inCtor /\ ~inCtor') =>
          /\ ctorNexts' = 1
          /\ pc' = "idle"
          /\ err' = "NotFound" => (ctorErr' = "nil" /\ ~valid')
          /\ err' \notin {"nil", "NotFound"} => (ctorErr' = err' /\ ~valid')
          /\ err' = "nil" =>
                /\ ctorErr' = "nil"
                /\ IF valid'
                     THEN /\ Expected # <<>>
                          /\ <<cache'[idx' + 1].Key, cache'[idx' + 1].Value>>
                                = Expected[1]
                     ELSE Expected = <<>> /\ eof']_vars

C10_Witness ==
    /\ Idle
    /\ ctorErr = "nil" /\ err = "NotFound"
    /\ ~Valid
    /\ ctorNexts = 1
    /\ Expected # <<>>

\* C11: every batch size argument of 1 or less (0 and negative ones
\* included) is normalised to scanBatchSize and every larger one is kept; a
\* Scanner constructed with batch size 1 sends every scan request with the
\* limit scanBatchSize and surfaces the visible keys as any Scanner does; no
\* scan request ever carries a limit below 2.
C11_BatchSizeNormalized ==
    /\ batchArg <= 1 => batchSize = scanBatchSize
    /\ \A b \in -2..1 : NormBatchSize(b) = scanBatchSize
    /\ \A b \in 2..(scanBatchSize + 1) : NormBatchSize(b) = b
    /\ batchArg > 1 => batchSize = batchArg
    /\ \A i \in 1..Len(reqLog) :
          /\ reqLog[i].Limit = batchSize
          /\ reqLog[i].Limit >= 2
    /\ pc = "extract" => Len(resp) <= batchSize
    /\ batchArg <= 1 =>
          /\ IsPrefix(out, Expected)
          /\ how = "eof" => out = Expected

C11_Witness ==
    /\ Idle /\ how = "eof"
    /\ batchArg = 1
    /\ Len(reqLog) >= 2
    /\ reqLog[2].Limit = scanBatchSize
    /\ Len(out) >= 2

\* C12 as stated: the cursor never passes the end of the page.
C12_Original == 0 <= idx /\ idx <= Len(cache)

\* C12 amended: 0 <= idx, and idx passes Len(cache) only over an empty page,
\* where it is 1: Next adds one to idx before it compares it with
\* Len(cache) (lines 86-88), so after the first advance of construction, and
\* after an advance over an installed empty page, idx = 1 and the page is
\* empty; a failed fetch or the close at eof leaves it so.  On a page that
\* is not empty idx <= Len(cache).
C12_CursorBound ==
    /\ 0 <= idx
    /\ cache # <<>> => idx <= Len(cache)
    /\ cache = <<>> => idx <= 1
    /\ pc \in {"resolve", "extract", "visibility", "send", "locate"} =>
          (pc = "resolve" <=> idx < Len(cache))

C12_Witness ==
    /\ Idle /\ ~Valid
    /\ cache = <<>> /\ idx = 1
    /\ how = "eof"
    /\ Len(reqLog) >= 2

\* nextStartKey is past every key of the installed page and not before any
\* surfaced key.
NextStartKeyIsPast ==
    /\ \A i \in 1..Len(out) : KeyLeq(out[i][1], nextStartKey)
    /\ \A i \in 1..Len(cache) : KeyLess(cache[i].Key, nextStartKey)

\* C13 as stated: in every reachable state nextStartKey is at or after
\* every surfaced key and after every key of the installed page.
C13_Original == NextStartKeyIsPast

\* C13 amended: that holds until the last region has answered with a short
\* page; from then on eof is set and nextStartKey is that region's empty end
\* key, which stands for no upper bound and is below every key.  It holds
\* for pages with locked entries, whose cached key is the lock's key.
C13_NextStartKeyBound ==
    /\ ~eof => NextStartKeyIsPast
    /\ eof => nextStartKey = <<>>
    /\ \A i \in 1..Len(cache) : cache[i].Key \in DataKeys

C13_Witness ==
    /\ Idle /\ Valid /\ ~eof
    /\ idx = 0
    /\ Len(out) = 1
    /\ Len(cache) = 2
    /\ cache[2].Error # <<>>
    /\ nextStartKey = cache[2].Error[1] \o <<0>>

\* C14: while getData runs, cache, nextStartKey and eof do not change
\* unless the step is the one that installs a fetched page, which leaves
\* the Scanner open with the cursor at 0; so a getData that fails, at
\* whatever step, leaves the three as they were when it was entered.
InGetData == pc \in {"locate", "send", "visibility", "extract"}

C14_AtomicInstall ==
    /\ [][InGetData =>
            \/ UNCHANGED <<cache, nextStartKey, eof>>
            \/ /\ pc = "extract" /\ pc' \in {"loop", "resolve"}
               /\ idx' = 0
               /\ valid' /\ err' = err]_vars
    /\ [](InGetData => nextStartKey = fetchKey)
    /\ []((Idle /\ err \in {"LocateErr", "SendErr", "RegionErrInvalid",
                            "BackoffExceeded", "BodyMissing", "StaleVersion",
                            "ExtractLockErr"})
             => (nextStartKey = fetchKey /\ ~Valid))

C14_Witness ==
    /\ Idle /\ err = "ExtractLockErr"
    /\ cache # <<>>
    /\ \A i \in 1..Len(cache) : cache[i].Error = <<>>
    /\ out # <<>>
    /\ nextStartKey = fetchKey

\* the step of getData that installs a fetched page, line 208
InstallStep == pc = "extract" /\ pc' \in {"loop", "resolve"}

\* C15: the step that installs a page sets idx to 0; a page shorter than
\* batchSize sets nextStartKey to the end key of the region located for this
\* fetch and sets eof exactly when that end key is empty; a page of
\* batchSize entries sets nextStartKey to its last key with a zero byte
\* appended and leaves eof alone.  No other step changes eof, and eof is
\* never cleared.
C15_ContinuationRule ==
    [][/\ InstallStep =>
             /\ idx' = 0
             /\ ~eof
             /\ loc.EndKey = FetchRegionEnd(fetchKey)
             /\ Len(cache') <= batchSize
             /\ IF Len(cache') < batchSize
                  THEN /\ nextStartKey' = loc.EndKey
                       /\ eof' = (loc.EndKey = <<>>)
                  ELSE /\ nextStartKey' = cache'[Len(cache')].Key \o <<0>>
                       /\ eof' = eof
       /\ eof' # eof => InstallStep
       /\ eof => eof']_vars

C15_Witness ==
    /\ pc = "resolve" /\ idx = 0
    /\ batchSize = 2 /\ Len(cache) = 2
    /\ nextStartKey = cache[2].Key \o <<0>>
    /\ ~eof
    /\ loc.EndKey = <<>>

\* C16 as stated: no Next ever returns the error of the lock extraction
C16_Original == ~(Idle /\ err = "ExtractLockErr")

\* C16: when every lock of a fetched page is extracted, getData installs the
\* page with the markers still on the locked entries and reads nothing from
\* the snapshot; a key is read from the snapshot only when Next reaches its
\* locked entry.  When the extraction returns an error, getData returns it
\* without installing the page and Next closes the Scanner.
C16_ConflictMarkers ==
    /\ [][pc = "extract" =>
            \/ /\ InstallStep
               /\ Len(cache') = Len(resp)
               /\ \A i \in 1..Len(resp) :
                     /\ cache'[i].Error = resp[i].Error
                     /\ cache'[i].Value = resp[i].Value
                     /\ cache'[i].Key = IF resp[i].Error # <<>>
                                          THEN resp[i].Error[1]
                                          ELSE resp[i].Key
               /\ UNCHANGED <<getKeys, nGet, valid, err, out>>
            \/ /\ HasKeyError(resp)
               /\ pc' = "idle" /\ err' = "ExtractLockErr" /\ ~valid'
               /\ UNCHANGED <<cache, idx, nextStartKey, eof, getKeys,
                              out>>]_vars
    /\ [][getKeys' # getKeys =>
            /\ pc = "resolve"
            /\ cache[idx + 1].Error # <<>>
            /\ getKeys' = getKeys \cup {cache[idx + 1].Key}]_vars

C16_Witness ==
    /\ Idle /\ err = "ExtractLockErr" /\ ~Valid /\ how = "error"
    /\ getKeys # {} /\ out # <<>>
    /\ \E k \in getKeys : <<k, PointRead(k)>> = out[Len(out)]

\* C17: getData goes back to LocateKey only after a region error, with one
\* Backoff charged for it.  A SendReq error, a response without a Scan body
\* and a failed CheckVisibility each end Next there and then: the Backoffer
\* is not charged, the Scanner is closed, the error is returned, and no
\* LocateKey or SendReq follows.  CheckVisibility runs only on a response
\* with a body, and the page is installed only after it passed.
C17_OnlyRegionErrorsRetried ==
    /\ [][(pc = "send" /\ pc' = "locate") =>
              /\ sendOutcome' = "RegionMiss"
              /\ bo' = bo + 1
              /\ nextStartKey' = nextStartKey]_vars
    /\ [][(pc = "send" /\ sendOutcome' \in {"SendErr", "BodyMissing"}) =>
              /\ pc' = "idle" /\ err' = sendOutcome' /\ ~valid'
              /\ bo' <= bo
              /\ UNCHANGED <<cache, idx, nextStartKey, eof>>]_vars
    /\ [][(pc = "visibility" /\ pc' # "extract") =>
              /\ pc' = "idle" /\ err' = "StaleVersion" /\ ~valid'
              /\ bo' <= bo
              /\ UNCHANGED <<cache, idx, nextStartKey, eof, reqLog>>]_vars
    /\ [][(pc = "idle" /\ how = "error"
              /\ err \in {"SendErr", "BodyMissing", "StaleVersion"}) =>
              (pc' = "idle" /\ reqLog' = reqLog)]_vars
    /\ [][pc' = "visibility" => (pc = "send" /\ sendOutcome' = "ok")]_vars
    /\ [][pc' = "extract" => pc = "visibility"]_vars
    /\ [][cache' # cache => pc \in {"extract", "resolve"}]_vars

C17_Witness ==
    /\ Idle /\ err = "SendErr" /\ ~Valid
    /\ sendOutcome = "SendErr"
    /\ Len(reqLog) >= 2
    /\ reqLog[Len(reqLog)].StartKey = nextStartKey
    /\ out # <<>>

\* C18: every Next enters its loop with a Backoffer that has absorbed
\* nothing, whatever earlier calls absorbed; within one Next the Backoffer
\* absorbs at most MaxRegionMiss region errors, and Next fails on the budget
\* only at a region error met when that same call has already absorbed
\* MaxRegionMiss of them, in as many scan requests of its own.  Region errors of earlier
\* calls do not count: a call made after a call that spent a whole budget
\* still absorbs every region error it meets below MaxRegionMiss.
C18_BudgetPerNext ==
    /\ [][(pc \in {"new", "idle"} /\ pc' = "loop") => bo' = 0]_vars
    /\ [](bo \in 0..MaxRegionMiss)
    /\ [][(pc = "send" /\ err' = "BackoffExceeded") =>
              (bo = MaxRegionMiss /\ nScan >= MaxRegionMiss
                 /\ sendOutcome' = "RegionMiss")]_vars
    /\ [][(spentBefore /\ pc = "send" /\ sendOutcome' = "RegionMiss"
              /\ bo < MaxRegionMiss) =>
              (pc' = "locate" /\ valid' /\ err' = err)]_vars

C18_Witness ==
    /\ spentBefore
    /\ pc = "resolve" /\ idx = 0
    /\ bo = MaxRegionMiss
    /\ nScan = MaxRegionMiss + 1
    /\ out # <<>>

\* ---- termination of Next ----------------------------------------------
\* a step of a running Next (lines 85-117 and the getData it calls): the
\* goroutine keeps running and every collaborator answers
Step ==
    \/ NextLoop
    \/ LocateKeyStep
    \/ SendReq
    \/ CheckVisibility
    \/ InstallPage
    \/ ResolveCurrentLock

LiveSpec == Init /\ [][Next]_vars /\ WF_vars(Step)

Running == pc \notin {"new", "idle"}

\* C19: a Next that is running returns (no Next runs forever: again and
\* again no Next is running).  What bounds it: a region error
\* sends getData back to LocateKey only with one more unit of the budget
\* spent, and never beyond MaxRegionMiss; a fetch that installs a page
\* without setting eof leaves nextStartKey strictly above the key it started
\* at, also when the page is empty; and every pass of the loop of Next moves
\* idx by one.
C19_NextReturns ==
    /\ []<>(~Running)
    /\ [][(pc = "send" /\ pc' = "locate") =>
              (bo' = bo + 1 /\ bo' <= MaxRegionMiss)]_vars
    /\ [][(InstallStep /\ ~eof') =>
              (nextStartKey = fetchKey /\ KeyLess(fetchKey, nextStartKey'))]_vars
    /\ [][pc = "loop" => idx' = idx + 1]_vars
    /\ [][(pc = "resolve" /\ pc' = "loop") => idx' = idx]_vars

C19_Witness ==
    /\ Idle /\ err = "nil" /\ how = "eof" /\ out = <<>>
    /\ ctorNexts = 1
    /\ Len(reqLog) >= 2
    /\ spentBefore = FALSE /\ sendOutcome = "ok"
    /\ \E k \in DataKeys : data[k] = "tomb"
    /\ splits # {}

\* C20: whenever no Next is running on a constructed Scanner and Valid()
\* is true, idx is a position of the page, the entry there has no Error
\* left, and its value is not empty; so Key() and Value() read inside the
\* page and never show a locked entry that was not resolved.
C20_ValidImpliesCursorOnEntry ==
    (Idle /\ Valid) =>
        /\ 0 <= idx /\ idx < Len(cache)
        /\ cache[idx + 1].Error = <<>>
        /\ cache[idx + 1].Value # <<>>
        /\ Key = cache[idx + 1].Key
        /\ Value = cache[idx + 1].Value

C20_Witness ==
    /\ Idle /\ Valid
    /\ idx = 1 /\ Len(cache) = 2
    /\ IsLocked(Key)
    /\ Value = PointRead(Key)
    /\ IsLocked(cache[1].Key) /\ cache[1].Value = <<>>

====
